---- MODULE Spec2Model ----
(***************************************************************************)
(* fsutils: the directory object model (Dir, File and its variants) and    *)
(* the content-addressable duplicate index (Dir.serialize,                 *)
(* Dir.load_database, Dir.duplicates).                                     *)
(*                                                                         *)
(* One directory D is cataloged.  D holds files at its top level and in    *)
(* one subdirectory.  A name is a sequence of characters, a path is a      *)
(* sequence of names relative to D, a file's content is a sequence of      *)
(* blocks, each block standing for the bytes one _read_chunk call of the   *)
(* generic File returns.                                                   *)
(*                                                                         *)
(* Spec is the directory model: nodes on D, whose path the caller spells   *)
(* absolute and normalized, and what happens to D's tree around them.      *)
(* NodeSpec is node construction and type resolution: File, Dir and obj    *)
(* on paths spelled in several ways, and size and sha256 on the node they  *)
(* return.  There a path is a string of tokens under the home directory.   *)
(***************************************************************************)
EXTENDS Integers, Sequences, FiniteSets, TLC

\* ---------------------------------------------------------------- bounds
NumFiles   == 4    \* files of the catalog that exist in D's tree at the start
MaxLen     == 2    \* blocks in a file
MaxChunk   == 2    \* distinct values of a block
MaxProbe   == 2    \* distinct stream records the media prober can report
MaxNodes   == 1    \* variables of the caller that hold a Dir node on D
MaxKeep    == 2    \* largest num_keep passed to duplicates
MaxGone    == 1    \* files removed from the tree by something else than the library
MaxPair    == 2    \* nodes on D the caller holds side by side
MaxPklGone == 1    \* index files removed or damaged by something else than the library

VARIABLES
    dirName,      \* basename of D
    hasSub,       \* whether D has its subdirectory
    nested,       \* the directory inside the subdirectory: "none", "dir", or
                  \* "indexed" when it holds its own index file
    present,      \* the catalog files that exist on disk
    moved,        \* the catalog file a rename moved, and where it is now
    content,      \* content[f]: the blocks of file f
    probe,        \* probe[f]: what the media prober reports for file f
    pklOnDisk,    \* names of the index files that exist in D
    pklData,      \* pklData[name]: the bytes of the index file called name
    live,         \* the caller's variables that hold a Dir node
    db,           \* db[n]: the db field of node n
    objects,      \* objects[n]: the _objects field of node n
    walked,       \* walked[n]: node n has been enumerated in full at least once
    pklGone,      \* index files removed or damaged so far
    ret,          \* what the last call returned
    held,         \* the node the caller built from a spelled path
    reply         \* what the last call on a spelled path or on that node gave

vars == <<dirName, hasSub, nested, moved, present, content, probe, pklOnDisk, pklData, live,
          db, objects, walked, pklGone, ret, held, reply>>

FileIds == 1..NumFiles
NodeIds == 1..MaxNodes

\* ------------------------------------------------------------ names, paths
\* Directory names: plain, and with a dot in it.
DirNames == { <<"d">>, <<"d", ".", "x">> }

SubName == <<"s">>

\* The directory inside the subdirectory, and its index file.
NestName == <<"t">>

NestPath == <<SubName, NestName>>

NestPklPath == <<SubName, NestName, NestName \o <<".", "p", "k", "l">>>>

PklExt == <<".", "p", "k", "l">>

\* str.lower() on one character.
Lower(c) ==
    CASE c = "J" -> "j"
      [] c = "P" -> "p"
      [] c = "G" -> "g"
      [] OTHER   -> c

LowerName(s) == [i \in 1..Len(s) |-> Lower(s[i])]

\* Index of the last "." of s, 0 if there is none.
LastDot(s) ==
    LET dots == {i \in 1..Len(s) : s[i] = "."}
    IN  IF dots = {} THEN 0 ELSE CHOOSE i \in dots : \A j \in dots : j <= i

\* os.path.splitext: the extension starts at the last dot, unless only dots
\* precede it (leading dots belong to the root).
SplitAt(s) ==
    LET d == LastDot(s)
    IN  IF d > 0 /\ (\E j \in 1..(d - 1) : s[j] # ".") THEN d ELSE Len(s) + 1

SplitextRoot(s) == SubSeq(s, 1, SplitAt(s) - 1)

SplitextExt(s) == SubSeq(s, SplitAt(s), Len(s))

\* File.basename of the Dir node: os.path.basename of its path, which the
\* caller spells without a trailing separator.
Basename == dirName

\* File.prefix: the basename without its extension.
Prefix == SplitextRoot(Basename)

\* The index file Dir.load_database reads.
LoadPkl == Prefix \o PklExt

\* Dir.serialize naming its file after the prefix, as load_database does.
WritePklOfPrefix == Prefix \o PklExt

\* The index file Dir.serialize tests, removes and writes.
WritePkl == Basename \o PklExt

PklNames == {LoadPkl, WritePkl}

\* ------------------------------------------------------------ the catalog
\* The files D's tree can hold: the name of each, and whether it lies in the
\* subdirectory or at the top level.
FileName(f) ==
    CASE f = 1 -> <<"a">>
      [] f = 2 -> <<"b", ".", "l", "o", "g">>
      [] f = 3 -> <<"c", ".", "J", "P", "G">>
      [] f = 4 -> <<"e", ".", "m", "p", "4">>
      [] f = 5 -> <<"f", ".", "m", "p", "4">>
      [] f = 6 -> <<"g", ".", "p", "y">>
      [] OTHER -> <<"h">>

InSub(f) == f % 2 = 0

FilePath(f) == IF InSub(f) THEN <<SubName, FileName(f)>> ELSE <<FileName(f)>>

PklPath(name) == <<name>>

\* ------------------------------------------------------------ obj, FILE_TYPES
\* FILE_TYPES in the order of the dict, with the extensions the catalog uses.
FILE_TYPES ==
    << <<"img",    { <<".", "j", "p", "g">>, <<".", "p", "n", "g">> }>>,
       <<"config", { <<".", "j", "s", "o", "n">> }>>,
       <<"video",  { <<".", "m", "p", "4">>, <<".", "f", "l", "v">> }>>,
       <<"audio",  { <<".", "f", "l", "v">>, <<".", "m", "p", "3">> }>>,
       <<"log",    { <<".", "j", "s", "o", "n">>, <<".", "l", "o", "g">> }>>,
       <<"script", { <<".", "p", "y">>, <<".", "s", "h">> }>> >>

\* file_type.capitalize() looked up in the module DirNode: the classes it
\* imports are Img, Video and Log; any other name raises AttributeError and
\* obj returns a generic File.
ClassOf(fileType) ==
    CASE fileType = "img"   -> "Img"
      [] fileType = "video" -> "Video"
      [] fileType = "log"   -> "Log"
      [] OTHER              -> "File"

\* obj(path) for an existing non-directory path: the class of the first
\* file type that lists the lowercase extension, File when none does.
ObjClass(name) ==
    LET ext  == SplitextExt(LowerName(name))
        hits == {i \in 1..Len(FILE_TYPES) : ext \in FILE_TYPES[i][2]}
    IN  IF hits = {} THEN "File"
        ELSE ClassOf(FILE_TYPES[CHOOSE i \in hits : \A j \in hits : i <= j][1])

Entry(cls, path) == [cls |-> cls, path |-> path]

\* ------------------------------------------------------------ sequences
Range(s) == {s[i] : i \in 1..Len(s)}

\* The members of a set of integers in increasing order.
RECURSIVE Sorted(_)
Sorted(S) ==
    IF S = {} THEN <<>>
    ELSE LET m == CHOOSE x \in S : \A y \in S : x <= y
         IN  <<m>> \o Sorted(S \ {m})

\* Every order in which the members of S can be listed.
RECURSIVE Orders(_)
Orders(S) ==
    IF S = {} THEN {<<>>}
    ELSE UNION {{<<x>> \o p : p \in Orders(S \ {x})} : x \in S}

\* ------------------------------------------------------------ the disk
IsPklPath(path) == \E name \in PklNames : path = PklPath(name)

\* The catalog file a path names.
FileAt(path) == CHOOSE f \in FileIds : FilePath(f) = path

\* os.path.exists(path), with pkls the index files on disk.
Exists(path, pkls) ==
    IF path = NestPklPath THEN nested = "indexed"
    ELSE IF IsPklPath(path) THEN path[1] \in pkls
    ELSE FileAt(path) \in present

\* os.walk(self.path) as Dir.__iter__ consumes it: at each level the
\* directories (each built with Dir) and then the files (each built with obj).
Walk(pkls) ==
    LET top   == Sorted({f \in present : ~InSub(f)})
        below == Sorted({f \in present : InSub(f)})
        index == (IF LoadPkl \in pkls THEN <<LoadPkl>> ELSE <<>>)
                 \o (IF WritePkl \in pkls /\ WritePkl # LoadPkl
                     THEN <<WritePkl>> ELSE <<>>)
    IN  (IF hasSub THEN <<Entry("Dir", <<SubName>>)>> ELSE <<>>)
        \o [i \in 1..Len(top) |-> Entry(ObjClass(FileName(top[i])), FilePath(top[i]))]
        \o [i \in 1..Len(index) |-> Entry(ObjClass(index[i]), PklPath(index[i]))]
        \o (IF nested # "none" THEN <<Entry("Dir", NestPath)>> ELSE <<>>)
        \o [i \in 1..Len(below) |-> Entry(ObjClass(FileName(below[i])), FilePath(below[i]))]
        \o (IF nested = "indexed"
            THEN <<Entry(ObjClass(NestPklPath[3]), NestPklPath)>> ELSE <<>>)

\* Dir.file_objects listing every file child twice.
FileObjectsTwice(objs) ==
    SelectSeq(objs, LAMBDA e : e.cls # "Dir") \o SelectSeq(objs, LAMBDA e : e.cls # "Dir")

\* Dir.file_objects over a materialized _objects list.
FileObjects(objs) == SelectSeq(objs, LAMBDA e : e.cls # "Dir")

\* ------------------------------------------------------------ hashing
\* hashlib.md5(data).hexdigest(): a tag on the bytes it digests.
Md5(data) == <<"md5", data>>

\* File._read_chunk(size=4096) of the file at path: its first block.
ReadChunk(path) == SubSeq(content[FileAt(path)], 1, 1)

\* File.size: os.path.getsize, in blocks.
Size(path) == Len(content[FileAt(path)])

\* File.sha256 reading no bytes before it digests.
FileSha256EmptyChunk(path) == <<"sha256", Md5(<<>>), Size(path)>>

\* File.sha256: the digest of the pickled {"md5", "size"} dict.
FileSha256(path) == <<"sha256", Md5(ReadChunk(path)), Size(path)>>

\* Video.sha256: the digest of the pickled dict that adds the stream record
\* (fps, bitrate, codec, duration) the prober reports.
VideoSha256(path) ==
    <<"sha256", Md5(ReadChunk(path)), Size(path), probe[FileAt(path)]>>

\* The value no result of a task equals: the task raised.
Raised == <<>>

\* The task serialize hands to the pool, lambda x: (x.sha256(), x.path).
\* _read_chunk raises FileNotFoundError for a path that is gone; for an Img,
\* md5_checksum is a property, so File.sha256's call self.md5_checksum()
\* raises TypeError.  An index file's bytes are one opaque block.
HashTask(e, pkls) ==
    IF ~Exists(e.path, pkls) THEN Raised
    ELSE IF e.cls = "Img" THEN Raised
    ELSE IF IsPklPath(e.path) \/ e.path = NestPklPath
         THEN <<<<"sha256", Md5(<<0>>), 1>>, e.path>>
    ELSE IF e.cls = "Video" THEN <<VideoSha256(e.path), e.path>>
    ELSE <<FileSha256(e.path), e.path>>

\* Pool.execute(fn, items): every sequence of results it can yield.  The
\* results arrive in any order and a task that raised yields none.
PoolExecute(items, pkls) ==
    LET out == [i \in 1..Len(items) |-> HashTask(items[i], pkls)]
        ok  == {i \in 1..Len(items) : out[i] # Raised}
    IN  {[k \in 1..Len(p) |-> out[p[k]]] : p \in Orders(ok)}

\* Pool.execute(fn, items): the items fn is called on, one call for each
\* item handed over.
PoolCalls(items) == [i \in 1..Len(items) |-> items[i].path]

\* ------------------------------------------------------------ the index
EmptyMap == <<>>

\* pickle.dump / pickle.load of the mapping.
Pickle(m) == <<"pickle", m>>

Unpickle(bytes) == bytes[2]

NoBytes == <<>>

\* Bytes pickle.load cannot read: it raises UnpicklingError or EOFError.
Corrupt == <<"garbage">>

\* The merge loop of Dir.serialize with a known hash getting the bucket
\* replaced by the path.
RECURSIVE MergeKeepLast(_, _)
MergeKeepLast(m, results) ==
    IF Len(results) = 0 THEN m
    ELSE LET sha  == Head(results)[1]
             path == Head(results)[2]
             m1   == [h \in DOMAIN m \cup {sha} |->
                        IF h = sha THEN <<path>> ELSE m[h]]
         IN  MergeKeepLast(m1, Tail(results))

\* The merge loop of Dir.serialize: a new hash starts a bucket, a known
\* hash gets the path appended.
RECURSIVE Merge(_, _)
Merge(m, results) ==
    IF Len(results) = 0 THEN m
    ELSE LET sha  == Head(results)[1]
             path == Head(results)[2]
             m1   == IF sha \notin DOMAIN m
                     THEN [h \in DOMAIN m \cup {sha} |->
                              IF h = sha THEN <<path>> ELSE m[h]]
                     ELSE [m EXCEPT ![sha] = Append(@, path)]
         IN  Merge(m1, Tail(results))

\* Dir.load_database raises: the file it opens does not unpickle.
LoadDatabaseRaises == LoadPkl \in pklOnDisk /\ pklData[LoadPkl] = Corrupt

\* An index file of D is on disk and does not unpickle.
IndexCorrupt == \E name \in pklOnDisk : pklData[name] = Corrupt

\* Dir.load_database, when it does not raise.
LoadDatabase ==
    IF LoadPkl \in pklOnDisk THEN Unpickle(pklData[LoadPkl]) ELSE EmptyMap

\* ------------------------------------------------------------ operations
NoRet ==
    [op |-> "none", node |-> 0, replace |-> FALSE, k |-> 0, built |-> FALSE,
     map |-> EmptyMap, dups |-> EmptyMap, files |-> {}, hashed |-> {},
     empty |-> FALSE, raised |-> FALSE, corrupt |-> FALSE, member |-> FALSE,
     calls |-> <<>>, persisted |-> FALSE]

\* Dir.serialize(replace) on node n: every outcome the call can have, as
\* the mapping it returns and the fields and files it leaves behind.
SerializeOutcomes(n, replace) ==
    LET exists == WritePkl \in pklOnDisk
    IN  IF exists /\ ~replace
        THEN {[map |-> IF LoadDatabaseRaises THEN EmptyMap ELSE LoadDatabase,
               raised |-> LoadDatabaseRaises,
               built |-> FALSE, files |-> {}, hashed |-> {}, calls |-> <<>>,
               db |-> db[n], objects |-> objects[n], walked |-> walked[n],
               pklOnDisk |-> pklOnDisk, pklData |-> pklData]}
        ELSE LET pkls  == pklOnDisk \ {WritePkl}
                 db0   == IF exists THEN EmptyMap ELSE db[n]
                 objs  == IF Len(objects[n]) = 0 THEN Walk(pkls) ELSE objects[n]
                 files == FileObjects(objs)
                 after(results) ==
                     LET m == Merge(db0, results)
                     IN  [map |-> m, raised |-> FALSE, built |-> TRUE,
                          files |-> {e.path : e \in Range(files)},
                          hashed |-> Range(results), calls |-> PoolCalls(files),
                          db |-> m, objects |-> objs, walked |-> TRUE,
                          pklOnDisk |-> pkls \cup {WritePkl},
                          pklData |-> [name \in PklNames |->
                                          IF name = WritePkl THEN Pickle(m)
                                          ELSE IF name \in pkls THEN pklData[name]
                                          ELSE NoBytes]]
             IN  {after(results) : results \in PoolExecute(files, pkls)}

\* Dir.duplicates keeping the buckets of num_keep paths too.
OverflowAtLeast(hashes, num_keep) ==
    [h \in {x \in DOMAIN hashes : Len(hashes[x]) >= num_keep} |-> hashes[h]]

\* The buckets Dir.duplicates keeps of the mapping, under their hashes.
Overflow(hashes, num_keep) ==
    [h \in {x \in DOMAIN hashes : Len(hashes[x]) > num_keep} |-> hashes[h]]

\* A call on one node writing the fields of every node.
LeavesShared(o, n) ==
    /\ db' = [m \in DOMAIN db |-> o.db]
    /\ objects' = [m \in DOMAIN objects |-> o.objects]
    /\ walked' = [m \in DOMAIN walked |-> o.walked]
    /\ pklOnDisk' = o.pklOnDisk
    /\ pklData' = o.pklData

\* What the call with outcome o on node n leaves behind: the fields of
\* node n and the index files of D.
Leaves(o, n) ==
    /\ db' = [db EXCEPT ![n] = o.db]
    /\ objects' = [objects EXCEPT ![n] = o.objects]
    /\ walked' = [walked EXCEPT ![n] = o.walked]
    /\ pklOnDisk' = o.pklOnDisk
    /\ pklData' = o.pklData

\* Dir(path): File.__init__, MetaData.__init__, then db = load_database().
\* When load_database raises, the constructor raises and the caller's
\* variable keeps what it held.
Construct(n) ==
    /\ \A m \in 1..(n - 1) : m \in live
    /\ IF LoadDatabaseRaises
       THEN /\ ret' = [NoRet EXCEPT !.op = "init", !.node = n, !.raised = TRUE,
                                    !.corrupt = IndexCorrupt]
            /\ UNCHANGED <<live, db, objects, walked>>
       ELSE /\ live' = live \cup {n}
            /\ db' = [db EXCEPT ![n] = LoadDatabase]
            /\ objects' = [objects EXCEPT ![n] = <<>>]
            /\ walked' = [walked EXCEPT ![n] = FALSE]
            /\ ret' = [NoRet EXCEPT !.op = "init", !.node = n, !.map = LoadDatabase,
                                    !.corrupt = IndexCorrupt]
    /\ UNCHANGED <<held, reply, moved, dirName, hasSub, nested, present, content, probe, pklOnDisk, pklData, pklGone>>

\* list(node): Dir.__iter__ walks when _objects is empty, then yields _objects.
Iterate(n) ==
    /\ n \in live
    /\ objects' = [objects EXCEPT ![n] =
                      IF Len(@) = 0 THEN Walk(pklOnDisk) ELSE @]
    /\ walked' = [walked EXCEPT ![n] = TRUE]
    /\ ret' = [NoRet EXCEPT !.op = "iter", !.node = n,
                            !.files = {e.path : e \in Range(FileObjects(objects'[n]))}]
    /\ UNCHANGED <<held, reply, moved, dirName, hasSub, nested, present, content, probe, pklOnDisk, pklData, live,
                   db, pklGone>>

\* os.path.isdir(path) for the path of an entry the walk listed.
IsDir(path) ==
    \/ hasSub /\ path = <<SubName>>
    \/ nested # "none" /\ path = NestPath

\* node.is_empty: len(self.files) == 0, where files lists the basename of
\* every entry of the iteration whose path is no directory.
IsEmpty(n) ==
    /\ n \in live
    /\ objects' = [objects EXCEPT ![n] =
                      IF Len(@) = 0 THEN Walk(pklOnDisk) ELSE @]
    /\ walked' = [walked EXCEPT ![n] = TRUE]
    /\ ret' = [NoRet EXCEPT !.op = "is_empty", !.node = n,
                            !.empty = (\A e \in Range(objects'[n]) : IsDir(e.path))]
    /\ UNCHANGED <<held, reply, moved, dirName, hasSub, nested, present, content, probe, pklOnDisk, pklData,
                   live, db, pklGone>>

\* When the call with outcome o returns, an index file of D is on disk and
\* unpickles to the mapping the call returns.
Persisted(o) ==
    \E name \in o.pklOnDisk :
        o.pklData[name] # Corrupt /\ Unpickle(o.pklData[name]) = o.map

\* node.serialize(replace).
Serialize(n, replace) ==
    /\ n \in live
    /\ \E o \in SerializeOutcomes(n, replace) :
          /\ Leaves(o, n)
          /\ ret' = [NoRet EXCEPT !.op = "serialize", !.node = n,
                                  !.raised = o.raised, !.corrupt = IndexCorrupt,
                                  !.replace = replace, !.built = o.built,
                                  !.map = o.map, !.files = o.files,
                                  !.hashed = o.hashed, !.calls = o.calls,
                                  !.persisted = Persisted(o)]
    /\ UNCHANGED <<held, reply, moved, dirName, hasSub, nested, present, content, probe, live, pklGone>>

\* node.duplicates(num_keep, refresh).
Duplicates(n, num_keep, refresh) ==
    /\ n \in live
    /\ \E o \in SerializeOutcomes(n, refresh) :
          /\ Leaves(o, n)
          /\ ret' = [NoRet EXCEPT !.op = "duplicates", !.node = n,
                                  !.raised = o.raised, !.corrupt = IndexCorrupt,
                                  !.replace = refresh, !.k = num_keep,
                                  !.built = o.built, !.map = o.map,
                                  !.dups = Overflow(o.map, num_keep),
                                  !.files = o.files, !.hashed = o.hashed,
                                  !.calls = o.calls, !.persisted = Persisted(o)]
    /\ UNCHANGED <<held, reply, moved, dirName, hasSub, nested, present, content, probe, live, pklGone>>

\* item in node, with item the node obj builds for file f of the tree:
\* Dir.__contains__ evaluates item.sha256() and then looks it up among the
\* keys of self.serialize().
Contains(n, f) ==
    /\ n \in live
    /\ f \in present
    /\ LET h == HashTask(Entry(ObjClass(FileName(f)), FilePath(f)), pklOnDisk)
       IN  IF h = Raised
           THEN /\ ret' = [NoRet EXCEPT !.op = "contains", !.node = n,
                                        !.raised = TRUE]
                /\ UNCHANGED <<db, objects, walked, pklOnDisk, pklData>>
           ELSE \E o \in SerializeOutcomes(n, FALSE) :
                   /\ Leaves(o, n)
                   /\ ret' = [NoRet EXCEPT !.op = "contains", !.node = n,
                                           !.raised = o.raised,
                                           !.member = (h[1] \in DOMAIN o.map)]
    /\ UNCHANGED <<held, reply, moved, dirName, hasSub, nested, present, content, probe, live, pklGone>>

\* Something else than the library removes a file of the tree.
RemoveFile(f) ==
    /\ f \in present
    /\ Cardinality(FileIds \ present) < MaxGone
    /\ present' = present \ {f}
    /\ UNCHANGED <<held, reply, moved, dirName, hasSub, nested, content, probe, pklOnDisk, pklData, live, db,
                   objects, walked, pklGone, ret>>

\* Something else than the library removes an index file.
RemovePkl(name) ==
    /\ name \in pklOnDisk
    /\ pklGone < MaxPklGone
    /\ pklOnDisk' = pklOnDisk \ {name}
    /\ pklData' = [pklData EXCEPT ![name] = NoBytes]
    /\ pklGone' = pklGone + 1
    /\ UNCHANGED <<held, reply, moved, dirName, hasSub, nested, present, content, probe, live, db, objects,
                   walked, ret>>

\* Something else than the library damages an index file: a torn write, a
\* file of another program under the same name.
CorruptPkl(name) ==
    /\ name \in pklOnDisk
    /\ pklData[name] # Corrupt
    /\ pklGone < MaxPklGone
    /\ pklData' = [pklData EXCEPT ![name] = Corrupt]
    /\ pklGone' = pklGone + 1
    /\ UNCHANGED <<held, reply, moved, dirName, hasSub, nested, present, content, probe, pklOnDisk, live, db,
                   objects, walked, ret>>

\* No file was renamed.
NoMove == [file |-> 0, comps |-> <<>>]

\* No node held, no call made on a spelled path.
NoNode == [cls |-> "none", path |-> <<>>, target |-> <<>>, objects |-> <<>>]

NoReply ==
    [op |-> "none", target |-> <<>>, raised |-> FALSE,
     cls |-> "none", path |-> <<>>, size |-> 0, sha |-> <<>>, empty |-> FALSE]

\* ------------------------------------------------------------ specification
Contents == UNION {[1..l -> 1..MaxChunk] : l \in 1..MaxLen}

\* The content most files start with.
Base == [i \in 1..MaxLen |-> 1]

IsVideo(f) == ObjClass(FileName(f)) = "Video"

\* A tree never indexed before, no node constructed: the full catalog with
\* the subdirectory, or no file at any depth, with or without the
\* subdirectory.  At most one file differs from the base content, in any
\* way a content can differ; under the dotted directory name and in the
\* empty tree every file has the base content.  The
\* prober reports the first record for the first video and for a file
\* that is no video, and the same record for the same bytes.
Init ==
    /\ dirName \in DirNames
    /\ \/ hasSub = TRUE /\ present = FileIds
       \/ hasSub \in BOOLEAN /\ present = {}
    /\ nested = "none"
    /\ moved = NoMove
    /\ \E f \in FileIds, c \in Contents :
          /\ content = [g \in FileIds |-> IF g = f THEN c ELSE Base]
          /\ (present = {} \/ dirName # <<"d">>) => c = Base
    /\ probe \in [FileIds -> 1..MaxProbe]
    /\ \A f \in FileIds :
          (~IsVideo(f) \/ (\A g \in FileIds : IsVideo(g) => f <= g)) => probe[f] = 1
    /\ \A f, g \in FileIds : content[f] = content[g] => probe[f] = probe[g]
    /\ pklOnDisk = {}
    /\ pklData = [name \in PklNames |-> NoBytes]
    /\ live = {}
    /\ db = [n \in NodeIds |-> EmptyMap]
    /\ objects = [n \in NodeIds |-> <<>>]
    /\ walked = [n \in NodeIds |-> FALSE]
    /\ pklGone = 0
    /\ ret = NoRet
    /\ held = NoNode
    /\ reply = NoReply

Next ==
    \/ \E n \in NodeIds : Construct(n)
    \/ \E n \in NodeIds : Iterate(n)
    \/ \E n \in NodeIds : IsEmpty(n)
    \/ \E n \in NodeIds, replace \in BOOLEAN : Serialize(n, replace)
    \/ \E n \in NodeIds, k \in 1..MaxKeep, refresh \in BOOLEAN : Duplicates(n, k, refresh)
    \/ \E n \in NodeIds, f \in FileIds : Contains(n, f)
    \/ \E f \in FileIds : RemoveFile(f)
    \/ \E name \in PklNames : RemovePkl(name)
    \/ \E name \in PklNames : CorruptPkl(name)

Spec == Init /\ [][Next]_vars

\* ------------------------------------------------------------ path strings
\* A path string is a sequence of tokens: the separator, "~", ".", ".." and
\* names.  The caller's home and working directory is /h, and D lies in it.
Sep == <<"/">>

Tilde == <<"~">>

Dot == <<".">>

DotDot == <<".", ".">>

Home == <<"h">>

\* The string of the absolute normalized path with the given components.
RECURSIVE Join(_)
Join(comps) ==
    IF Len(comps) = 0 THEN <<>>
    ELSE <<Sep, Head(comps)>> \o Join(Tail(comps))

HomeString == Join(<<Home>>)

CwdString == Join(<<Home>>)

\* os.path.expanduser: a leading "~" component becomes the home directory.
Expanduser(s) ==
    IF Len(s) > 0 /\ s[1] = Tilde /\ (Len(s) = 1 \/ s[2] = Sep)
    THEN HomeString \o Tail(s)
    ELSE s

\* The components normpath keeps: "." is dropped, ".." drops the component
\* before it.
RECURSIVE Collapse(_, _)
Collapse(tokens, acc) ==
    IF Len(tokens) = 0 THEN acc
    ELSE LET t == Head(tokens)
         IN  IF t = Sep \/ t = Dot THEN Collapse(Tail(tokens), acc)
             ELSE IF t = DotDot
             THEN Collapse(Tail(tokens),
                           IF Len(acc) = 0 THEN acc ELSE SubSeq(acc, 1, Len(acc) - 1))
             ELSE Collapse(Tail(tokens), Append(acc, t))

\* os.path.normpath of an absolute path string.
Normpath(s) ==
    LET comps == Collapse(s, <<>>)
    IN  IF Len(comps) = 0 THEN <<Sep>> ELSE Join(comps)

\* os.path.abspath: a relative string is joined to the working directory,
\* then the string is normalized.
Abspath(s) ==
    IF Len(s) > 0 /\ s[1] = Sep THEN Normpath(s)
    ELSE Normpath(CwdString \o <<Sep>> \o s)

\* os.path.basename: what follows the last separator, as a name.
OsBasename(s) ==
    IF Len(s) = 0 \/ s[Len(s)] = Sep THEN <<>> ELSE s[Len(s)]

\* os.path.join(s, name).
OsJoin(s, name) ==
    IF Len(s) > 0 /\ s[Len(s)] = Sep THEN Append(s, name)
    ELSE s \o <<Sep, name>>

\* ------------------------------------------------------------ spelled paths
\* The files of the home directory, beside D: scripts, a file with an
\* extension no file type lists, a loose git object.
GitName == [i \in 1..40 |-> IF i % 2 = 0 THEN "a" ELSE "0"]

ExtraNames ==
    { <<"g", ".", "p", "y">>, <<"k", ".", "s", "h">>,
      <<"u", ".", "z", "z", "z">>, GitName }

\* Absolute paths as sequences of components.
DComps == <<Home, dirName>>

FileComps(f) == DComps \o FilePath(f)

MissingComps == <<Home, <<"z">>>>

\* What is on disk at an absolute path: a directory, a file or nothing.
Kind(comps) ==
    IF \/ comps \in {<<>>, <<Home>>, DComps}
       \/ hasSub /\ comps = DComps \o <<SubName>>
       \/ nested # "none" /\ comps = DComps \o NestPath
    THEN "dir"
    ELSE IF \/ \E f \in present : comps = FileComps(f)
            \/ nested = "indexed" /\ comps = DComps \o NestPklPath
            \/ moved.file # 0 /\ comps = moved.comps
            \/ \E name \in pklOnDisk : comps = DComps \o PklPath(name)
            \/ \E name \in ExtraNames : comps = <<Home, name>>
    THEN "file"
    ELSE "none"

\* What the operating system finds at a path string, which it resolves
\* against the working directory and does not expand "~" in.
OsKind(s) ==
    Kind(Collapse(IF Len(s) > 0 /\ s[1] = Sep THEN s
                  ELSE CwdString \o <<Sep>> \o s, <<>>))

\* The ways a caller spells the path with the given components, which lie
\* under the home directory.
Spellings == {"abs", "rel", "tilde", "trail", "updown"}

Spell(how, comps) ==
    CASE how = "abs"    -> Join(comps)
      [] how = "rel"    -> Tail(Join(Tail(comps)))
      [] how = "tilde"  -> <<Tilde>> \o Join(Tail(comps))
      [] how = "trail"  -> Join(comps) \o <<Sep>>
      [] how = "updown" -> Join(comps) \o <<Sep, DotDot, Sep, comps[Len(comps)]>>

\* The paths the caller builds nodes from: D, a path that does not exist,
\* the first file of the catalog.
Targets == {DComps, MissingComps, FileComps(1)}

\* The existing paths the caller resolves with obj.
ObjTargets ==
    {DComps} \cup {FileComps(f) : f \in FileIds}
             \cup {<<Home, name>> : name \in ExtraNames}

\* The catalog file at an absolute path, 0 if it is none of them.
FileOf(comps) ==
    IF \E f \in FileIds : comps = FileComps(f)
    THEN CHOOSE f \in FileIds : comps = FileComps(f)
    ELSE 0

\* File.__init__(path): the path abspath(expanduser(path)), which must exist.
FilePathOf(s) == Abspath(Expanduser(s))

FileInitRaises(s) == OsKind(FilePathOf(s)) = "none"

\* Dir.load_database on a node whose path field is the string s: the file
\* it looks for, and whether reading it raises.
PklOf(s) == OsJoin(s, SplitextRoot(OsBasename(s)) \o PklExt)

PklRaises(s) ==
    LET comps == Collapse(IF s[1] = Sep THEN PklOf(s)
                          ELSE CwdString \o <<Sep>> \o PklOf(s), <<>>)
    IN  \E name \in pklOnDisk :
           comps = DComps \o PklPath(name) /\ pklData[name] = Corrupt

\* ------------------------------------------------------------ nodes from spelled paths
\* What the calls on spelled paths leave alone.
treeVars ==
    <<dirName, hasSub, nested, moved, present, probe, pklOnDisk, pklData, live, db, objects,
      walked, pklGone, ret>>

\* File(path) with the path spelled how.
NewFile(how, target) ==
    LET s == Spell(how, target)
    IN  /\ IF FileInitRaises(s)
           THEN /\ reply' = [NoReply EXCEPT !.op = "File",
                                            !.target = target, !.raised = TRUE]
                /\ held' = held
           ELSE /\ held' = [NoNode EXCEPT !.cls = "File", !.path = FilePathOf(s),
                                          !.target = target]
                /\ reply' = [NoReply EXCEPT !.op = "File",
                                            !.target = target, !.cls = "File",
                                            !.path = FilePathOf(s)]
        /\ UNCHANGED <<treeVars, content>>

\* Dir(path) with the path spelled how: File.__init__(self, path), then
\* MetaData.__init__(self, path=path), which assigns the path field the
\* string as spelled, then load_database().
NewDir(how, target) ==
    LET s == Spell(how, target)
    IN  /\ IF FileInitRaises(s) \/ PklRaises(s)
           THEN /\ reply' = [NoReply EXCEPT !.op = "Dir",
                                            !.target = target, !.raised = TRUE]
                /\ held' = held
           ELSE /\ held' = [NoNode EXCEPT !.cls = "Dir", !.path = s,
                                          !.target = target]
                /\ reply' = [NoReply EXCEPT !.op = "Dir",
                                            !.target = target, !.cls = "Dir",
                                            !.path = s]
        /\ UNCHANGED <<treeVars, content>>

\* obj(path) on an existing path, spelled absolute and normalized.
Obj(target) ==
    LET s   == Join(target)
        cls == IF OsKind(s) = "dir" THEN "Dir" ELSE ObjClass(OsBasename(s))
    IN  /\ Kind(target) # "none"
        /\ IF cls = "Dir" /\ PklRaises(s)
           THEN /\ reply' = [NoReply EXCEPT !.op = "obj",
                                            !.target = target, !.raised = TRUE]
                /\ held' = held
           ELSE /\ held' = [NoNode EXCEPT !.cls = cls, !.target = target,
                                          !.path = IF cls = "Dir" THEN s
                                                   ELSE FilePathOf(s)]
                /\ reply' = [NoReply EXCEPT !.op = "obj",
                                            !.target = target, !.cls = cls,
                                            !.path = held'.path]
        /\ UNCHANGED <<treeVars, content>>

\* os.walk(path) as Dir.__iter__ consumes it, for the path field of the
\* held node: the walk of D, or nothing when the string names no directory.
WalkOf(s) ==
    LET comps == Collapse(IF s[1] = Sep THEN s ELSE CwdString \o <<Sep>> \o s, <<>>)
    IN  IF comps = DComps THEN Walk(pklOnDisk) ELSE <<>>

\* held.is_empty, for a node Dir built.
NodeIsEmpty ==
    /\ held.cls = "Dir"
    /\ held' = [held EXCEPT !.objects =
                    IF Len(@) = 0 THEN WalkOf(held.path) ELSE @]
    /\ reply' = [NoReply EXCEPT !.op = "is_empty", !.target = held.target,
                                !.cls = "Dir", !.path = held.path,
                                !.empty = (\A e \in Range(held'.objects) :
                                              IsDir(e.path))]
    /\ UNCHANGED <<treeVars, content>>

\* held.size, for a node of File or one of its variants on a catalog file.
NodeSize ==
    /\ held.cls \notin {"none", "Dir"}
    /\ FileOf(held.target) # 0
    /\ reply' = IF FileOf(held.target) \in present
                THEN [NoReply EXCEPT !.op = "size", !.target = held.target,
                                     !.cls = held.cls, !.path = held.path,
                                     !.size = Size(FilePath(FileOf(held.target)))]
                ELSE [NoReply EXCEPT !.op = "size", !.target = held.target,
                                     !.cls = held.cls, !.path = held.path,
                                     !.raised = TRUE]
    /\ UNCHANGED <<treeVars, content, held>>

\* held.sha256(), for a node of File or one of its variants on a catalog file.
NodeSha256 ==
    /\ held.cls \notin {"none", "Dir"}
    /\ FileOf(held.target) # 0
    /\ LET h == HashTask(Entry(held.cls, FilePath(FileOf(held.target))), pklOnDisk)
       IN  reply' = IF h = Raised
                    THEN [NoReply EXCEPT !.op = "sha256", !.target = held.target,
                                         !.cls = held.cls, !.path = held.path,
                                         !.raised = TRUE]
                    ELSE [NoReply EXCEPT !.op = "sha256", !.target = held.target,
                                         !.cls = held.cls, !.path = held.path,
                                         !.sha = h[1]]
    /\ UNCHANGED <<treeVars, content, held>>

\* The names the caller assigns: a free one and those of the files of D.
NewNames == {<<"r">>} \cup {FileName(f) : f \in {g \in FileIds : ~InSub(g)}}

\* held.basename = name, for a node of File or one of its variants on the
\* catalog file the caller spells, which exists: the setter raises FileExistsError when
\* dir_path/name exists; else it renames the file and calls
\* self.__setattr__("basename", name), which enters the setter again,
\* finds that dir_path/name now exists and raises FileExistsError before
\* path is assigned.
Rename(name) ==
    LET f        == FileOf(held.target)
        new_path == SubSeq(held.target, 1, Len(held.target) - 1) \o <<name>>
    IN  /\ held.cls \notin {"none", "Dir"}
        /\ held.target \in Targets
        /\ f # 0 /\ f \in present
        /\ moved = NoMove
        /\ IF Kind(new_path) # "none"
           THEN UNCHANGED <<present, moved>>
           ELSE /\ present' = present \ {f}
                /\ moved' = [file |-> f, comps |-> new_path]
        /\ reply' = [NoReply EXCEPT !.op = "rename", !.target = new_path,
                                    !.cls = held.cls, !.path = held.path,
                                    !.raised = TRUE]
        /\ UNCHANGED <<held, content, dirName, hasSub, nested, probe, pklOnDisk,
                       pklData, live, db, objects, walked, pklGone, ret>>

\* Something else than the library rewrites the file the held node is on.
\* One file at a time differs from the base content.
Modify(f, c) ==
    /\ f \in present
    /\ f = FileOf(held.target)
    /\ c # content[f]
    /\ \A g \in FileIds \ {f} : content[g] = Base
    /\ content' = [content EXCEPT ![f] = c]
    /\ UNCHANGED <<treeVars, held, reply>>

\* The full tree, never walked, with no index file, an intact one or a
\* damaged one where serialize writes it.
NodeInit ==
    /\ dirName \in DirNames
    /\ hasSub = TRUE
    /\ nested = "none"
    /\ moved = NoMove
    /\ present = FileIds
    /\ content = [f \in FileIds |-> Base]
    /\ probe = [f \in FileIds |-> 1]
    /\ pklOnDisk \in {{}, {WritePkl}}
    /\ pklData \in [PklNames -> {NoBytes, Pickle(EmptyMap), Corrupt}]
    /\ \A name \in PklNames : (pklData[name] = NoBytes) = (name \notin pklOnDisk)
    /\ live = {}
    /\ db = [n \in NodeIds |-> EmptyMap]
    /\ objects = [n \in NodeIds |-> <<>>]
    /\ walked = [n \in NodeIds |-> FALSE]
    /\ pklGone = 0
    /\ ret = NoRet
    /\ held = NoNode
    /\ reply = NoReply

NodeNext ==
    \/ \E how \in Spellings, target \in Targets : NewFile(how, target)
    \/ \E how \in Spellings, target \in Targets : NewDir(how, target)
    \/ \E target \in ObjTargets : Obj(target)
    \/ NodeIsEmpty
    \/ NodeSize
    \/ NodeSha256
    \/ \E f \in FileIds, c \in Contents : Modify(f, c)
    \/ \E name \in NewNames : Rename(name)

NodeSpec == NodeInit /\ [][NodeNext]_vars

\* ------------------------------------------------------------ properties
\* The paths listed in the buckets of a mapping.
Paths(m) == UNION {Range(m[h]) : h \in DOMAIN m}

\* How many times path p is listed in the mapping, over all its buckets.
Occurrences(m, p) ==
    Cardinality({x \in UNION {{<<h, i>> : i \in 1..Len(m[h])} : h \in DOMAIN m} :
                    m[x[1]][x[2]] = p})

\* The paths of the file children whose task raised in the last build.
Failed == ret.files \ {r[2] : r \in ret.hashed}

\* The files of the tree with the same bytes as f.
SameBytes(f) == {g \in present : content[g] = content[f]}

\* C1: after a build over the intact tree, duplicates(num_keep=1) returns
\* for every set of two or more files with identical bytes one bucket that
\* holds exactly their paths, once each, and lists no file whose bytes
\* differ from every other file's.
C1_DuplicatesGroupIdentical ==
    (ret.op = "duplicates" /\ ret.k = 1 /\ ret.built /\ present = FileIds) =>
        \A f \in FileIds :
            IF Cardinality(SameBytes(f)) > 1
            THEN \E h \in DOMAIN ret.dups :
                    /\ Range(ret.dups[h]) = {FilePath(g) : g \in SameBytes(f)}
                    /\ Len(ret.dups[h]) = Cardinality(SameBytes(f))
            ELSE FilePath(f) \notin Paths(ret.dups)

\* C2: duplicates(num_keep=k, refresh=r) returns exactly the buckets of the
\* mapping serialize(replace=r) gave it that are longer than k: each returned
\* bucket is a bucket of that mapping with more than k paths, and no such
\* bucket is left out.
C2_DuplicatesOverflow ==
    ret.op = "duplicates" =>
        /\ \A h \in DOMAIN ret.dups :
              /\ h \in DOMAIN ret.map
              /\ ret.dups[h] = ret.map[h]
              /\ Len(ret.dups[h]) > ret.k
        /\ \A h \in DOMAIN ret.map :
              Len(ret.map[h]) > ret.k => h \in DOMAIN ret.dups

\* C2 happens: duplicates with the default num_keep=2 saw a bucket of two
\* paths, which it left out, and a longer one, which it returned.
C2_Witness ==
    /\ ret.op = "duplicates"
    /\ ret.k = 2
    /\ \E h \in DOMAIN ret.map : Len(ret.map[h]) = 2
    /\ \E h \in DOMAIN ret.dups : Len(ret.dups[h]) > 2

\* C3: serialize() built the index and the file it wrote is on disk; the call
\* serialize(replace=False) that follows returns the mapping the first call
\* returned.
C3_ShortCircuitSame ==
    [][(/\ ret.op = "serialize" /\ ret.built
        /\ WritePkl \in pklOnDisk /\ pklData[WritePkl] = Pickle(ret.map)
        /\ ret'.op = "serialize" /\ ~ret'.replace /\ ~ret'.built)
       => ret'.map = ret.map]_vars

\* C4: every path in the mapping serialize(replace=True) returns after a
\* rebuild is one of the node's file children.
C4_RebuildHasNoStale ==
    (ret.op = "serialize" /\ ret.replace /\ ret.built) =>
        Paths(ret.map) \subseteq ret.files

\* C5: in the db of every node each path is listed at most once over all
\* buckets.
C5_PathOnce ==
    \A n \in live : \A p \in Paths(db[n]) : Occurrences(db[n], p) = 1

\* C6: a Dir constructed on D while the index file serialize wrote is on
\* disk, intact, gets a db equal to the mapping that file holds.
C6_RoundTrip ==
    (ret.op = "init" /\ ~ret.raised /\ WritePkl \in pklOnDisk
     /\ pklData[WritePkl] # Corrupt) =>
        ret.map = Unpickle(pklData[WritePkl])

\* C7: a rebuild over the intact tree lists every file of the tree, at any
\* depth and of any variant, in the mapping it returns.
C7_AllFilesIndexed ==
    (ret.op = "serialize" /\ ret.built /\ present = FileIds) =>
        \A f \in FileIds : FilePath(f) \in Paths(ret.map)

\* C8: after a build, a file child whose hashing raised has no entry in the
\* returned mapping and every file child that was hashed is listed under its
\* hash.
C8_FailureIsolated ==
    (ret.op = "serialize" /\ ret.built) =>
        /\ \A p \in Failed : p \notin Paths(ret.map)
        /\ \A r \in ret.hashed :
              r[1] \in DOMAIN ret.map /\ r[2] \in Range(ret.map[r[1]])

\* C9: a build puts two files of equal size whose first chunks differ
\* under different hashes, so in different buckets.
C9_DistinctBuckets ==
    ret.built =>
        \A r1, r2 \in ret.hashed :
            (Size(r1[2]) = Size(r2[2]) /\ ReadChunk(r1[2]) # ReadChunk(r2[2]))
                => r1[1] # r2[1]

\* C9 happens: a build hashed two files of equal size whose first chunks
\* differ.
C9_Witness ==
    /\ ret.built
    /\ \E r1, r2 \in ret.hashed :
          Size(r1[2]) = Size(r2[2]) /\ ReadChunk(r1[2]) # ReadChunk(r2[2])

\* C10: a build over the intact tree gives any two files of equal size and
\* equal first chunk, of whatever variant, the same hash.
C10_HashIsSizeAndPrefix ==
    (ret.built /\ present = FileIds) =>
        \A f, g \in FileIds :
            (Size(FilePath(f)) = Size(FilePath(g))
             /\ ReadChunk(FilePath(f)) = ReadChunk(FilePath(g)))
                => \E r1, r2 \in ret.hashed :
                      r1[2] = FilePath(f) /\ r2[2] = FilePath(g) /\ r1[1] = r2[1]

\* C11: while D holds no file at any depth, every is_empty read on a node on
\* D is true and every duplicates() call returns no group, whichever came
\* first and whether the node is the same or was constructed afterwards.
C11_EmptyDirectory ==
    present = {} =>
        /\ ret.op = "is_empty" => ret.empty
        /\ ret.op = "duplicates" => ret.dups = EmptyMap

\* C15: a call that found an index file of D damaged does not raise: the
\* constructor returns a node with an empty db, and serialize(replace=False)
\* builds the index anew.
C15_CorruptIndexIsAbsent ==
    ret.corrupt =>
        /\ ~ret.raised
        /\ ret.op = "init" => ret.map = EmptyMap
        /\ (ret.op = "serialize" /\ ~ret.replace) => ret.built

\* A step of something else than the library.  Every other step is a call
\* of the library on a node on D: construction, iteration, is_empty,
\* serialize, duplicates, a membership test.
EnvironmentStep ==
    \/ \E f \in FileIds : RemoveFile(f)
    \/ \E name \in PklNames : RemovePkl(name) \/ CorruptPkl(name)

\* C12: a call of the library leaves every file of D's tree in place with
\* the bytes it had, and creates, overwrites or removes no file but the
\* index file <basename>.pkl of D.
C12_SourceFilesUntouched ==
    [][~EnvironmentStep =>
          /\ present' = present
          /\ content' = content
          /\ \A name \in PklNames \ {Basename \o PklExt} :
                /\ (name \in pklOnDisk') = (name \in pklOnDisk)
                /\ pklData'[name] = pklData[name]]_vars

\* C12 happens: serialize(replace=True) removed the index file and wrote it
\* anew over the intact tree.
C12_Witness ==
    /\ ret.op = "serialize" /\ ret.replace /\ ret.built
    /\ present = FileIds
    /\ WritePkl \in pklOnDisk /\ pklData[WritePkl] = Pickle(ret.map)
    /\ ret.map # EmptyMap

\* C19: once a node has been enumerated in full, no later call on the same
\* node changes the sequence of children it holds and returns, whatever
\* happened on disk and even if the first walk found no entry.
C19_WalkedOnce ==
    [][\A n \in NodeIds :
          (walked[n] /\ walked'[n]) => objects'[n] = objects[n]]_vars

\* The name at the end of an absolute path.
LastName(comps) == comps[Len(comps)]

\* The first file type of FILE_TYPES that lists the lowercase extension of
\* the name, "none" when no file type does.
CategoryOf(name) ==
    LET ext  == SplitextExt(LowerName(name))
        hits == {i \in 1..Len(FILE_TYPES) : ext \in FILE_TYPES[i][2]}
    IN  IF hits = {} THEN "none"
        ELSE FILE_TYPES[CHOOSE i \in hits : \A j \in hits : i <= j][1]

HexDigits == {"0", "1", "2", "3", "4", "5", "6", "7", "8", "9",
              "a", "b", "c", "d", "e", "f"}

\* GIT_OBJECT_REGEX.match(name): the name starts with 37 to 41 hexadecimal
\* digits.
IsGitObject(name) ==
    Len(name) >= 37 /\ \A i \in 1..37 : name[i] \in HexDigits

\* C13: Dir(path) raises when the path, however spelled, names nothing or
\* names something that is no directory.
C13_RootErrorsRaise ==
    (reply.op = "Dir" /\ Kind(reply.target) # "dir") => reply.raised

\* C14: the path field of a node built from any spelling of an existing
\* path is the absolute normalized path, from construction on.
C14_PathNormalized ==
    held.cls # "none" => held.path = Join(held.target)

\* C16: obj on an existing path raises nothing, and gives the generic File
\* for a file whose extension no file type lists.
C16_ObjTotal ==
    reply.op = "obj" =>
        /\ ~reply.raised
        /\ (Kind(reply.target) = "file"
            /\ CategoryOf(LastName(reply.target)) = "none") => reply.cls = "File"

\* C17: obj gives Dir for a directory and, for a file, the variant of the
\* file type that lists its extension: Img for img, Video for video, Log
\* for log, Exe for script.
C17_ObjByExtension ==
    (reply.op = "obj" /\ ~reply.raised) =>
        LET cat == CategoryOf(LastName(reply.target))
        IN  IF Kind(reply.target) = "dir" THEN reply.cls = "Dir"
            ELSE /\ cat = "img" => reply.cls = "Img"
                 /\ cat = "video" => reply.cls = "Video"
                 /\ cat = "log" => reply.cls = "Log"
                 /\ cat = "script" => reply.cls = "Exe"

\* C18: for a file whose extension no file type lists, obj gives Git when
\* the basename matches the git object pattern and File only when it does
\* not.
C18_GitFallback ==
    (reply.op = "obj" /\ ~reply.raised /\ Kind(reply.target) = "file"
     /\ CategoryOf(LastName(reply.target)) = "none") =>
        reply.cls = IF IsGitObject(LastName(reply.target)) THEN "Git" ELSE "File"

\* C20: two reads of size, and two calls of sha256(), on the same node
\* give the same value, whatever happened to the file in between.
C20_ComputeOnce ==
    [][(held' = held /\ ~reply.raised /\ ~reply'.raised) =>
          /\ (reply.op = "size" /\ reply'.op = "size") => reply'.size = reply.size
          /\ (reply.op = "sha256" /\ reply'.op = "sha256") => reply'.sha = reply.sha]_vars

\* C23: a node on D reads and writes one index file: the file
\* load_database opens is the file serialize writes.
C23_OneIndexFile ==
    live # {} => LoadPkl = WritePkl

\* C24: whatever the order in which the results of the workers arrive, a
\* build gives a mapping with the same hashes and, under each hash, the same
\* set of paths.
C24_OrderIndependent ==
    \A n \in live :
        \A o1, o2 \in SerializeOutcomes(n, TRUE) :
            /\ DOMAIN o1.map = DOMAIN o2.map
            /\ \A h \in DOMAIN o1.map : Range(o1.map[h]) = Range(o2.map[h])

\* C24 happens: two arrival orders of one build give mappings that list a
\* bucket of several paths in different orders.
C24_Witness ==
    \E n \in live :
        \E o1, o2 \in SerializeOutcomes(n, TRUE) :
            \E h \in DOMAIN o1.map :
                /\ h \in DOMAIN o2.map
                /\ Len(o1.map[h]) > 1
                /\ o1.map[h] # o2.map[h]

\* C25: in a rebuild sha256 is called once on each file child of the node
\* and on nothing else.
C25_HashedOnce ==
    ret.built =>
        /\ Range(ret.calls) = ret.files
        /\ \A i, j \in 1..Len(ret.calls) : ret.calls[i] = ret.calls[j] => i = j

\* C25 happens: a rebuild called sha256 on several file children, one of
\* which raised.
C25_Witness ==
    /\ ret.built
    /\ Len(ret.calls) > 2
    /\ Failed # {}

\* C26: when serialize returns, after a rebuild or after the short-circuit,
\* the index file is on disk and unpickles to the mapping returned.
C26_PersistedIsReturned ==
    (ret.op = "serialize" /\ ~ret.raised) => ret.persisted


\* ------------------------------------------------------------ nested tree
\* Two nodes on D, whose subdirectory holds a directory of its own, while
\* other processes remove entries of the tree.
PairIds == 1..MaxPair

\* The first file of D and the first file of its subdirectory.
TreeFiles == {f \in FileIds : f <= 2}

\* obj(path) for a path that no longer exists: every file type listing the
\* extension is tried; a type with a class raises FileNotFoundError, which
\* is printed, and the loop goes on; a type without a class reaches
\* "return File(path)" inside the AttributeError handler, whose
\* FileNotFoundError leaves obj.  Past the loop File(path) is guarded and
\* obj returns None.
ObjOnMissing(name) ==
    LET ext  == SplitextExt(LowerName(name))
        hits == {i \in 1..Len(FILE_TYPES) : ext \in FILE_TYPES[i][2]}
    IN  IF \E i \in hits : ClassOf(FILE_TYPES[i][1]) = "File"
        THEN "raises" ELSE "none"

\* The position in the walk w of the entry at path.
PositionOf(w, path) == CHOOSE i \in 1..Len(w) : w[i].path = path

\* The walk w without its entry i.
Without(w, i) == SubSeq(w, 1, i - 1) \o SubSeq(w, i + 1, Len(w))

\* list(node) while another process removes an entry that os.walk has
\* listed and the loop has not yet built: the nested directory (v = 0) or
\* file v.  Dir(os.path.join(root, directory)) is unguarded, so
\* File.__init__'s FileNotFoundError leaves __iter__ with the entries
\* appended so far in _objects; for a file, obj returns None and the entry
\* is skipped, or raises.
IterateRace(n, v) ==
    /\ n \in live
    /\ Len(objects[n]) = 0
    /\ LET w == Walk(pklOnDisk)
       IN  IF v = 0
           THEN /\ nested = "dir"
                /\ nested' = "none"
                /\ objects' = [objects EXCEPT ![n] =
                                  SubSeq(w, 1, PositionOf(w, NestPath) - 1)]
                /\ ret' = [NoRet EXCEPT !.op = "iter", !.node = n, !.raised = TRUE]
                /\ UNCHANGED <<present, walked>>
           ELSE /\ v \in present
                /\ Cardinality(TreeFiles \ present) < MaxGone
                /\ present' = present \ {v}
                /\ LET k == PositionOf(w, FilePath(v))
                   IN  IF ObjOnMissing(FileName(v)) = "raises"
                       THEN /\ objects' = [objects EXCEPT ![n] = SubSeq(w, 1, k - 1)]
                            /\ ret' = [NoRet EXCEPT !.op = "iter", !.node = n,
                                                    !.raised = TRUE]
                            /\ UNCHANGED walked
                       ELSE /\ objects' = [objects EXCEPT ![n] = Without(w, k)]
                            /\ walked' = [walked EXCEPT ![n] = TRUE]
                            /\ ret' = [NoRet EXCEPT !.op = "iter", !.node = n,
                                          !.files = {e.path : e \in
                                                     Range(FileObjects(objects'[n]))}]
                /\ UNCHANGED nested
    /\ UNCHANGED <<held, reply, moved, dirName, hasSub, content, probe, pklOnDisk, pklData, live,
                   db, pklGone>>

\* Dir(D/s/t).serialize() by the caller: the nested directory, which holds
\* nothing, gets its own index file t.pkl.
BuildNested ==
    /\ nested = "dir"
    /\ nested' = "indexed"
    /\ UNCHANGED <<held, reply, moved, dirName, hasSub, present, content, probe, pklOnDisk,
                   pklData, live, db, objects, walked, pklGone, ret>>

\* Another process removes the nested directory.
RemoveNested ==
    /\ nested = "dir"
    /\ nested' = "none"
    /\ UNCHANGED <<held, reply, moved, dirName, hasSub, present, content, probe, pklOnDisk,
                   pklData, live, db, objects, walked, pklGone, ret>>

\* One file at each depth, or directories only; the nested directory exists.
TreeInit ==
    /\ dirName = <<"d">>
    /\ hasSub = TRUE
    /\ nested = "dir"
    /\ moved = NoMove
    /\ present \in {TreeFiles, {}}
    /\ content = [f \in FileIds |-> Base]
    /\ probe = [f \in FileIds |-> 1]
    /\ pklOnDisk = {}
    /\ pklData = [name \in PklNames |-> NoBytes]
    /\ live = {}
    /\ db = [n \in PairIds |-> EmptyMap]
    /\ objects = [n \in PairIds |-> <<>>]
    /\ walked = [n \in PairIds |-> FALSE]
    /\ pklGone = 0
    /\ ret = NoRet
    /\ held = NoNode
    /\ reply = NoReply

TreeNext ==
    \/ \E n \in PairIds : Construct(n)
    \/ \E n \in PairIds : Iterate(n)
    \/ \E n \in PairIds : IsEmpty(n)
    \/ \E n \in PairIds, replace \in BOOLEAN : Serialize(n, replace)
    \/ \E n \in PairIds, v \in {0} \cup FileIds : IterateRace(n, v)
    \/ BuildNested
    \/ RemoveNested

TreeSpec == TreeInit /\ [][TreeNext]_vars

\* C21: an enumeration during which an entry of the tree is removed does
\* not raise.
C21_WalkTolerant == ret.op = "iter" => ~ret.raised

\* C28: an enumeration that returns lists every file on disk; the entries
\* a walk appended before it raised are not served as the full result.
C28_CacheAllOrNothing ==
    (ret.op = "iter" /\ ~ret.raised) => \A f \in present : FilePath(f) \in ret.files

\* C29: no bucket of a node's mapping holds the path of an index file.
C29_NoIndexInBuckets ==
    \A n \in live : \A p \in Paths(db[n]) : ~IsPklPath(p) /\ p # NestPklPath

\* C22: is_empty is true exactly when file_objects is empty.
C22_EmptyIffNoFiles ==
    \A n \in live :
        LET objs == IF Len(objects[n]) = 0 THEN Walk(pklOnDisk) ELSE objects[n]
        IN  (\A e \in Range(objs) : IsDir(e.path)) <=> (FileObjects(objs) = <<>>)

C30_RenameAtomic ==
    (reply.op = "rename" /\ reply.raised) =>
        moved = NoMove /\ OsKind(held.path) = "file"

====
